---------------------------- MODULE Spec2Model ----------------------------
(***************************************************************************)
(* Library management service (library_service.py): catalog admission,     *)
(* borrow, return and late-fee calculation over a book / borrow-record     *)
(* store.  Strings are tuples of one-character strings, timestamps are     *)
(* whole calendar days, money is integer cents.  The persistence module    *)
(* (database) is not part of the sources; its operations follow the        *)
(* collaborator contract of the specification, section 6.                  *)
(***************************************************************************)
EXTENDS Integers, Sequences, FiniteSets, TLC

VARIABLES
    books,      \* table books: sequence of rows, a row's id is its position
    borrows,    \* table borrows: sequence of rows in insertion (id) order
    now,        \* the calendar day datetime.now() falls on
    last,       \* the most recent completed call: operation, arguments, return value, day
    chain,      \* observer: the current run of borrow/return pairs of one (patron, book)
    pc,         \* per concurrent caller: the storage call it performs next
    loc         \* per concurrent caller: its arguments and local variables

vars == <<books, borrows, now, last, chain, pc, loc>>

-----------------------------------------------------------------------------
(* Bounds of the model *)

\* largest total_copies offered to add_book_to_catalog in SpecCatalog
CatCopies == 1
\* no borrow call is started once the borrows table holds this many rows (SpecStatus)
StatusRecords == 2
\* the number of 15-day leaps of the clock (SpecStatus)
StatusLeaps == 2
\* largest total_copies offered to add_book_to_catalog in Spec
MaxCopies == 2
\* no borrow call is started once the borrows table holds this many rows (Spec)
MaxRecords == 2
\* largest total_copies offered in SpecLimit
LimitCopies == 6
\* no borrow call is started once the borrows table holds this many rows (SpecLimit)
LimitRecords == 6
\* the clock stops advancing at this day (SpecFee)
MaxDay == 35
\* no borrow call is started once the borrows table holds this many rows (SpecConc)
ConcRecords == 3

(* Program constants *)

BorrowLimit == 5
LoanDays == 14
PatronIdLen == 6
IsbnLen == 13
MaxTitleLen == 200
MaxAuthorLen == 100
Tier1Days == 7
Tier1Cents == 50
Tier2Cents == 100
CapCents == 1500
\* the 1e-9 added before rounding, in units of 1e-9 dollar
EpsilonNano == 1
\* 1e-9 dollars in one cent
NanoPerCent == 10000000
\* return_date IS NULL
NULL == -1

-----------------------------------------------------------------------------
(* Strings *)

Digits == {"0", "1", "2", "3", "4", "5", "6", "7", "8", "9"}

\* str.isdigit(): non-empty and every character a digit
isdigit(s) == Len(s) > 0 /\ \A i \in 1..Len(s) : s[i] \in Digits

RECURSIVE lstrip(_)
lstrip(s) == IF s # <<>> /\ Head(s) = " " THEN lstrip(Tail(s)) ELSE s

RECURSIVE rstrip(_)
rstrip(s) == IF s # <<>> /\ s[Len(s)] = " " THEN rstrip(SubSeq(s, 1, Len(s) - 1)) ELSE s

\* (x or "").strip()
strip(s) == rstrip(lstrip(s))

Rep(c, n) == [i \in 1..n |-> c]

Min(a, b) == IF a <= b THEN a ELSE b
Max(a, b) == IF a >= b THEN a ELSE b

-----------------------------------------------------------------------------
(* Persistence collaborator, on explicit table values *)

\* get_book_by_id(id) -> Book | null: <<row>> or <<>>
get_book_by_id(bks, id) == IF id \in DOMAIN bks THEN <<bks[id]>> ELSE <<>>

\* get_book_by_isbn(isbn) -> Book | null
get_book_by_isbn(bks, isbn) ==
    LET hits == {i \in DOMAIN bks : bks[i].isbn = isbn}
    IN  IF hits = {} THEN <<>> ELSE <<bks[CHOOSE i \in hits : \A j \in hits : i <= j]>>

\* insert_book(title, author, isbn, total, available): the id is generated on insert
insert_book(bks, title, author, isbn, total, available) ==
    Append(bks, [id |-> Len(bks) + 1, title |-> title, author |-> author, isbn |-> isbn,
                 total_copies |-> total, available_copies |-> available])

\* the active (return_date IS NULL) rows of (patron_id, book_id)
ActiveRows(brs, patron_id, book_id) ==
    {i \in DOMAIN brs : /\ brs[i].patron_id = patron_id
                        /\ brs[i].book_id = book_id
                        /\ brs[i].return_date = NULL}

\* get_patron_borrow_count(patron_id): count of active / unreturned records
get_patron_borrow_count(brs, patron_id) ==
    Cardinality({i \in DOMAIN brs : brs[i].patron_id = patron_id /\ brs[i].return_date = NULL})

\* insert_borrow_record(patron_id, book_id, borrow_date, due_date)
insert_borrow_record(brs, patron_id, book_id, borrow_date, due_date) ==
    Append(brs, [id |-> Len(brs) + 1, patron_id |-> patron_id, book_id |-> book_id,
                 borrow_date |-> borrow_date, due_date |-> due_date, return_date |-> NULL])

\* the most recently created active row of (patron_id, book_id): ORDER BY id DESC LIMIT 1
LatestActive(brs, patron_id, book_id) ==
    LET rows == ActiveRows(brs, patron_id, book_id)
    IN  IF rows = {} THEN <<>> ELSE <<CHOOSE i \in rows : \A j \in rows : j <= i>>

\* update_borrow_record_return_date(patron_id, book_id, return_date): closes the most
\* recently created matching active record; the table is unchanged when there is none
update_borrow_record_return_date(brs, patron_id, book_id, return_date) ==
    LET hit == LatestActive(brs, patron_id, book_id)
    IN  IF hit = <<>> THEN brs
        ELSE [brs EXCEPT ![hit[1]].return_date = return_date]

\* update_book_availability(book_id, delta)
update_book_availability(bks, book_id, delta) ==
    [bks EXCEPT ![book_id].available_copies = @ + delta]

-----------------------------------------------------------------------------
(* library_service.py: helpers of the business functions *)

\* a return value (success, message); a message is a tuple of its parts
Failure(text) == <<FALSE, <<text>>>>
Success(parts) == <<TRUE, parts>>

\* not (not patron_id or not patron_id.isdigit() or len(patron_id) != 6)
ValidPatronId(patron_id) ==
    ~(patron_id = <<>> \/ ~isdigit(patron_id) \/ Len(patron_id) # PatronIdLen)

\* a slip: the availability check lets a book with no copy left through
NotAvailableBelowZero(book) == book.available_copies < 0

\* book['available_copies'] <= 0
NotAvailable(book) == book.available_copies <= 0

\* a slip: the limit check is off by one
AtBorrowLimitOffByOne(current_borrowed) == current_borrowed > BorrowLimit

\* current_borrowed >= 5
AtBorrowLimit(current_borrowed) == current_borrowed >= BorrowLimit

\* a slip: a borrow adds a copy instead of taking one
TakeCopyWrongSign(bks, book_id) == update_book_availability(bks, book_id, 1)

\* a slip: a borrow does not take a copy
TakeCopyForgotten(bks, book_id) == bks

\* a slip: a borrow takes its copy from the first book of the catalog
TakeCopyFirstBook(bks, book_id) == update_book_availability(bks, 1, -1)

\* update_book_availability(book_id, -1)
TakeCopy(bks, book_id) == update_book_availability(bks, book_id, -1)

\* a slip: a return does not add the copy back
GiveCopyBackForgotten(bks, book_id) == bks

\* update_book_availability(book_id, +1)
GiveCopyBack(bks, book_id) == update_book_availability(bks, book_id, 1)

\* int(book_id): a raw id is [isint, val]; isint = FALSE stands for any value
\* int() raises on.  <<n>> or <<>>
IntOf(raw) == IF raw.isint THEN <<raw.val>> ELSE <<>>

\* a slip: the result of update_borrow_record_return_date is not looked at
NoActiveBorrowIgnored(updated) == FALSE

\* if not updated
NoActiveBorrow(updated) == ~updated

\* a slip: a string of exactly the limit is refused
TooLongOffByOne(s, limit) == Len(s) >= limit

\* len(title) > 200, len(author) > 100
TooLong(s, limit) == Len(s) > limit

\* a slip: the duplicate ISBN lookup is not acted on
IsbnTakenIgnored(existing) == FALSE

\* existing = get_book_by_isbn(isbn); if existing
IsbnTaken(existing) == existing # <<>>

\* a slip: a new book starts with no copy available
InitialAvailableNone(total_copies) == 0

\* insert_book(title, author, isbn, total_copies, total_copies): the fifth argument
InitialAvailable(total_copies) == total_copies

-----------------------------------------------------------------------------
(* add_book_to_catalog: a call on table value bks; w_ok says whether the    *)
(* storage write succeeds.  Returns the new table and the return value.     *)
(* total_copies is an integer here, so isinstance(total_copies, int) holds. *)

add_book_to_catalog(bks, title0, author0, isbn0, total_copies, w_ok) ==
    LET title  == strip(title0)
        author == strip(author0)
        isbn   == strip(isbn0)
        same(ret) == [books |-> bks, ret |-> ret]
    IN  IF title = <<>> THEN same(Failure("Title is required."))
        ELSE IF TooLong(title, MaxTitleLen)
            THEN same(Failure("Title must be less than 200 characters."))
        ELSE IF author = <<>> THEN same(Failure("Author is required."))
        ELSE IF TooLong(author, MaxAuthorLen)
            THEN same(Failure("Author must be less than 100 characters."))
        ELSE IF Len(isbn) # IsbnLen \/ ~isdigit(isbn)
            THEN same(Failure("ISBN must be exactly 13 digits."))
        ELSE IF total_copies <= 0
            THEN same(Failure("Total copies must be a positive integer."))
        ELSE IF IsbnTaken(get_book_by_isbn(bks, isbn))
            THEN same(Failure("A book with this ISBN already exists."))
        ELSE IF w_ok
            THEN [books |-> insert_book(bks, title, author, isbn, total_copies,
                                        InitialAvailable(total_copies)),
                  ret   |-> Success(<<"Book has been successfully added to the catalog.", title>>)]
        ELSE same(Failure("Database error occurred while adding the book."))

-----------------------------------------------------------------------------
(* borrow_book_by_patron *)

\* a slip: the limit is checked before the availability
BorrowPrecheckLimitFirst(bks, brs, patron_id, book_id) ==
    LET book == get_book_by_id(bks, book_id)
    IN  IF ~ValidPatronId(patron_id)
            THEN <<Failure("Invalid patron ID. Must be exactly 6 digits.")>>
        ELSE IF book = <<>> THEN <<Failure("Book not found.")>>
        ELSE IF AtBorrowLimit(get_patron_borrow_count(brs, patron_id))
            THEN <<Failure("You have reached the maximum borrowing limit of 5 books.")>>
        ELSE IF NotAvailable(book[1])
            THEN <<Failure("This book is currently not available.")>>
        ELSE <<>>

\* the precondition checks, in the order of the code: the first failure's
\* return value, or <<>> when all pass
BorrowPrecheck(bks, brs, patron_id, book_id) ==
    LET book == get_book_by_id(bks, book_id)
    IN  IF ~ValidPatronId(patron_id)
            THEN <<Failure("Invalid patron ID. Must be exactly 6 digits.")>>
        ELSE IF book = <<>> THEN <<Failure("Book not found.")>>
        ELSE IF NotAvailable(book[1])
            THEN <<Failure("This book is currently not available.")>>
        ELSE IF AtBorrowLimit(get_patron_borrow_count(brs, patron_id))
            THEN <<Failure("You have reached the maximum borrowing limit of 5 books.")>>
        ELSE <<>>

\* a slip: a borrow re-opens the pair's returned record, when there is one, instead
\* of creating a record
BorrowWritesReopen(bks, brs, today, patron_id, book_id, ins_ok, upd_ok) ==
    LET book     == get_book_by_id(bks, book_id)[1]
        due_date == today + LoanDays
        old      == {i \in DOMAIN brs : /\ brs[i].patron_id = patron_id
                                         /\ brs[i].book_id = book_id
                                         /\ brs[i].return_date # NULL}
    IN  [books |-> TakeCopy(bks, book_id),
         borrows |-> IF old = {}
                       THEN insert_borrow_record(brs, patron_id, book_id, today, due_date)
                       ELSE [brs EXCEPT ![CHOOSE i \in old : TRUE].return_date = NULL],
         ret |-> Success(<<"Successfully borrowed", book.title, due_date>>)]

\* the two storage writes of a borrow that passed its checks; ins_ok and upd_ok say
\* whether insert_borrow_record and update_book_availability succeed.  The success
\* message carries the title and the due date, a day
BorrowWrites(bks, brs, today, patron_id, book_id, ins_ok, upd_ok) ==
    LET book        == get_book_by_id(bks, book_id)[1]
        borrow_date == today
        due_date    == borrow_date + LoanDays
        inserted    == insert_borrow_record(brs, patron_id, book_id, borrow_date, due_date)
    IN  IF ~ins_ok
            THEN [books |-> bks, borrows |-> brs,
                  ret |-> Failure("Database error occurred while creating borrow record.")]
        ELSE IF ~upd_ok
            THEN [books |-> bks, borrows |-> inserted,
                  ret |-> Failure("Database error occurred while updating book availability.")]
        ELSE [books |-> TakeCopy(bks, book_id),
              borrows |-> inserted,
              ret |-> Success(<<"Successfully borrowed", book.title, due_date>>)]

borrow_book_by_patron(bks, brs, today, patron_id, book_id, ins_ok, upd_ok) ==
    LET failed == BorrowPrecheck(bks, brs, patron_id, book_id)
    IN  IF failed # <<>>
            THEN [books |-> bks, borrows |-> brs, ret |-> failed[1]]
        ELSE BorrowWrites(bks, brs, today, patron_id, book_id, ins_ok, upd_ok)

-----------------------------------------------------------------------------
(* return_book_by_patron *)

\* rec_ok and upd_ok say whether update_borrow_record_return_date and
\* update_book_availability succeed as storage writes
return_book_by_patron(bks, brs, today, patron_id, raw_book_id, rec_ok, upd_ok) ==
    LET same(ret) == [books |-> bks, borrows |-> brs, ret |-> ret]
        id        == IntOf(raw_book_id)
    IN  IF ~ValidPatronId(patron_id)
            THEN same(Failure("Invalid patron ID. Must be exactly 6 digits."))
        ELSE IF id = <<>> THEN same(Failure("Invalid book id."))
        ELSE IF get_book_by_id(bks, id[1]) = <<>> THEN same(Failure("Book not found."))
        ELSE
            LET book_id == id[1]
                book    == get_book_by_id(bks, book_id)[1]
                updated == rec_ok /\ LatestActive(brs, patron_id, book_id) # <<>>
                closed  == IF updated
                           THEN update_borrow_record_return_date(brs, patron_id, book_id, today)
                           ELSE brs
            IN  IF NoActiveBorrow(updated)
                    THEN same(Failure("No active borrow for this patron and book."))
                ELSE IF ~upd_ok
                    THEN [books |-> bks, borrows |-> closed,
                          ret |-> Failure("Database error occurred while updating availability.")]
                ELSE [books |-> GiveCopyBack(bks, book_id),
                      borrows |-> closed,
                      ret |-> Success(<<"Returned", book.title>>)]

-----------------------------------------------------------------------------
(* calculate_late_fee_for_book *)

\* round(x + 1e-9, 2) of an amount of whole cents: cents plus sub 1e-9 dollars,
\* to the nearest cent
Round2(cents, sub) == IF 2 * sub >= NanoPerCent THEN cents + 1 ELSE cents

\* a slip: the cap is left out
LateFeeUncapped(days_overdue) ==
    LET tier1_days == Min(days_overdue, Tier1Days)
        tier2_days == Max(days_overdue - Tier1Days, 0)
        fee        == tier1_days * Tier1Cents + tier2_days * Tier2Cents
    IN  Round2(fee, EpsilonNano)

\* the tiered fee with cap, in cents, of days_overdue >= 1
LateFee(days_overdue) ==
    LET tier1_days == Min(days_overdue, Tier1Days)
        tier2_days == Max(days_overdue - Tier1Days, 0)
        fee        == tier1_days * Tier1Cents + tier2_days * Tier2Cents
        fee_capped == Min(CapCents, fee)
    IN  Round2(fee_capped, EpsilonNano)

\* a slip: the due day itself counts as a day overdue
DaysOverdueInclusive(today, due_dt) == Max(0, today - due_dt + 1)

\* max(0, (today.date() - due_dt.date()).days)
DaysOverdue(today, due_dt) == Max(0, today - due_dt)

\* fee_amount is in cents.  A stored due_date is a date the service wrote, so
\* datetime.fromisoformat does not raise on it.
NoActiveLoan == [fee_amount |-> 0, days_overdue |-> 0, status |-> "no_active_loan"]

calculate_late_fee_for_book(brs, today, patron_id, raw_book_id) ==
    LET id == IntOf(raw_book_id)
    IN  IF ~ValidPatronId(patron_id) THEN NoActiveLoan
        ELSE IF id = <<>> THEN NoActiveLoan
        ELSE
            LET row == LatestActive(brs, patron_id, id[1])
            IN  IF row = <<>> THEN NoActiveLoan
                ELSE
                    LET due_dt       == brs[row[1]].due_date
                        days_overdue == DaysOverdue(today, due_dt)
                    IN  IF days_overdue = 0
                            THEN [fee_amount |-> 0, days_overdue |-> 0, status |-> "on_time"]
                        ELSE [fee_amount |-> LateFee(days_overdue),
                              days_overdue |-> days_overdue, status |-> "late"]

-----------------------------------------------------------------------------
(* Inputs *)

PatronA == <<"1", "2", "3", "4", "5", "6">>
PatronB == <<"6", "5", "4", "3", "2", "1">>
\* malformed patron ids: empty, too short, not all digits, too long
NoPatron    == <<>>
ShortPatron == <<"1", "2", "3", "4", "5">>
AlphaPatron == <<"1", "2", "3", "4", "5", "a">>
LongPatron  == <<"1", "2", "3", "4", "5", "6", "7">>

Isbn1 == Rep("1", IsbnLen)
Isbn2 == Rep("2", IsbnLen)
TitleA  == <<"A">>
AuthorB == <<"B">>

\* a book id as the caller passes it
IntId(n) == [isint |-> TRUE, val |-> n]
NotAnInt == [isint |-> FALSE, val |-> 0]
\* the ids of the catalog and one past it
BookIds == 1..(Len(books) + 1)
\* the same as the caller of return and of the fee calculation may pass them, and a
\* value int() rejects
RawIds == {IntId(n) : n \in BookIds} \cup {NotAnInt}

Callers == {1, 2}

-----------------------------------------------------------------------------
(* State *)

NoCall == [op |-> "none", args |-> <<>>, ret |-> <<>>, day |-> 0]
NoChain == [patron_id |-> <<>>, book_id |-> 0, base |-> 0, n |-> 0, open |-> FALSE]
NoLocals == [op |-> "none"]

Init ==
    /\ books = <<>>
    /\ borrows = <<>>
    /\ now = 0
    /\ last = NoCall
    /\ chain = NoChain
    /\ pc = [c \in Callers |-> "idle"]
    /\ loc = [c \in Callers |-> NoLocals]

Idle == \A c \in Callers : pc[c] = "idle"

\* the observer after a call: a run continues through successful borrow, return,
\* borrow, ... of one (patron, book) with nothing in between; base is the book's
\* available_copies before the run's first borrow, n the pairs completed
ChainAfter(op, patron_id, book_id, ok, before) ==
    IF op = "borrow" /\ ok
        THEN IF /\ chain.patron_id = patron_id
                /\ chain.book_id = book_id
                /\ chain.n > 0
                /\ ~chain.open
             THEN [chain EXCEPT !.open = TRUE]
             ELSE [patron_id |-> patron_id, book_id |-> book_id, base |-> before,
                   n |-> 0, open |-> TRUE]
    ELSE IF /\ op = "return" /\ ok
            /\ chain.patron_id = patron_id
            /\ chain.book_id = book_id
            /\ chain.open
        THEN [chain EXCEPT !.n = @ + 1, !.open = FALSE]
    ELSE NoChain

-----------------------------------------------------------------------------
(* Sequential calls: each runs to completion as one step *)

AddBook(title, author, isbn, total_copies, w_ok) ==
    LET r == add_book_to_catalog(books, title, author, isbn, total_copies, w_ok)
    IN  /\ Idle
        /\ books' = r.books
        /\ last' = [op |-> "add",
                    args |-> [title |-> title, author |-> author, isbn |-> isbn,
                              total_copies |-> total_copies],
                    ret |-> r.ret, day |-> now]
        /\ chain' = NoChain
        /\ UNCHANGED <<borrows, now, pc, loc>>

Borrow(patron_id, book_id, ins_ok, upd_ok) ==
    LET r == borrow_book_by_patron(books, borrows, now, patron_id, book_id, ins_ok, upd_ok)
    IN  /\ Idle
        /\ books' = r.books
        /\ borrows' = r.borrows
        /\ last' = [op |-> "borrow",
                    args |-> [patron_id |-> patron_id, book_id |-> book_id],
                    ret |-> r.ret, day |-> now]
        /\ chain' = ChainAfter("borrow", patron_id, book_id, r.ret[1],
                               IF book_id \in DOMAIN books
                               THEN books[book_id].available_copies ELSE 0)
        /\ UNCHANGED <<now, pc, loc>>

Return(patron_id, raw_book_id, rec_ok, upd_ok) ==
    LET r == return_book_by_patron(books, borrows, now, patron_id, raw_book_id, rec_ok, upd_ok)
    IN  /\ Idle
        /\ books' = r.books
        /\ borrows' = r.borrows
        /\ last' = [op |-> "return",
                    args |-> [patron_id |-> patron_id, book_id |-> raw_book_id],
                    ret |-> r.ret, day |-> now]
        /\ chain' = ChainAfter("return", patron_id, raw_book_id.val, r.ret[1], 0)
        /\ UNCHANGED <<now, pc, loc>>

\* last.again of a fee call: the call before it was a fee call with the same
\* arguments on the same day

\* a slip: the fee call also closes the loan it prices
CalcFeeClosesLoan(patron_id, raw_book_id) ==
    /\ Idle
    /\ last' = [op |-> "fee",
                args |-> [patron_id |-> patron_id, book_id |-> raw_book_id],
                ret |-> calculate_late_fee_for_book(borrows, now, patron_id, raw_book_id),
                day |-> now,
                again |-> /\ last.op = "fee"
                          /\ last.args = [patron_id |-> patron_id, book_id |-> raw_book_id]
                          /\ last.day = now]
    /\ borrows' = IF raw_book_id.isint
                  THEN update_borrow_record_return_date(borrows, patron_id,
                                                        raw_book_id.val, now)
                  ELSE borrows
    /\ chain' = NoChain
    /\ UNCHANGED <<books, now, pc, loc>>

CalcFee(patron_id, raw_book_id) ==
    /\ Idle
    /\ last' = [op |-> "fee",
                args |-> [patron_id |-> patron_id, book_id |-> raw_book_id],
                ret |-> calculate_late_fee_for_book(borrows, now, patron_id, raw_book_id),
                day |-> now,
                again |-> /\ last.op = "fee"
                          /\ last.args = [patron_id |-> patron_id, book_id |-> raw_book_id]
                          /\ last.day = now]
    /\ chain' = NoChain
    /\ UNCHANGED <<books, borrows, now, pc, loc>>

\* midnight passes
Tick ==
    /\ Idle
    /\ now < MaxDay
    /\ now' = now + 1
    /\ UNCHANGED <<books, borrows, last, chain, pc, loc>>

\* days pass between two calls
Elapse(days) ==
    /\ Idle
    /\ now' = now + days
    /\ UNCHANGED <<books, borrows, last, chain, pc, loc>>

-----------------------------------------------------------------------------
(* Spec: sequential callers, two patrons, two books, every storage write    *)
(* succeeds                                                                 *)

Patrons == {PatronA, PatronB, ShortPatron}

Next ==
    \/ \E isbn \in {Isbn1, Isbn2}, n \in 0..MaxCopies :
           AddBook(TitleA, AuthorB, isbn, n, TRUE)
    \/ \E p \in Patrons, b \in BookIds :
           Len(borrows) < MaxRecords /\ Borrow(p, b, TRUE, TRUE)
    \/ \E p \in Patrons, b \in RawIds : Return(p, b, TRUE, TRUE)

Spec == Init /\ [][Next]_vars

-----------------------------------------------------------------------------
(* SpecLimit: sequential callers, one patron and one book with enough       *)
(* copies to reach the borrowing limit, every storage write succeeds        *)

LimitPatrons == {PatronA, NoPatron, ShortPatron, AlphaPatron, LongPatron}

NextLimit ==
    \/ \E n \in 1..LimitCopies : AddBook(TitleA, AuthorB, Isbn1, n, TRUE)
    \/ \E p \in LimitPatrons, b \in BookIds :
           Len(borrows) < LimitRecords /\ Borrow(p, b, TRUE, TRUE)
    \/ \E p \in LimitPatrons, b \in RawIds : Return(p, b, TRUE, TRUE)

SpecLimit == Init /\ [][NextLimit]_vars

-----------------------------------------------------------------------------
(* SpecFaulty: sequential callers, each storage write may fail              *)

FaultyPatrons == {PatronA, ShortPatron}

NextFaulty ==
    \/ \E n \in 1..MaxCopies, w_ok \in BOOLEAN : AddBook(TitleA, AuthorB, Isbn1, n, w_ok)
    \/ \E p \in FaultyPatrons, b \in BookIds, ins_ok \in BOOLEAN, upd_ok \in BOOLEAN :
           Len(borrows) < MaxRecords /\ Borrow(p, b, ins_ok, upd_ok)
    \/ \E p \in FaultyPatrons, b \in RawIds, rec_ok \in BOOLEAN, upd_ok \in BOOLEAN :
           Return(p, b, rec_ok, upd_ok)

SpecFaulty == Init /\ [][NextFaulty]_vars

-----------------------------------------------------------------------------
(* SpecFee: one loan of one book ageing as the days pass                    *)

FeePatrons == {PatronA, ShortPatron}

NextFee ==
    \/ AddBook(TitleA, AuthorB, Isbn1, 1, TRUE)
    \/ \E b \in BookIds : Borrow(PatronA, b, TRUE, TRUE)
    \/ \E p \in FeePatrons, b \in RawIds : CalcFee(p, b)
    \/ Tick

SpecFee == Init /\ [][NextFee]_vars

-----------------------------------------------------------------------------
(* SpecStatus: one patron borrowing, returning and asking for the fee of a  *)
(* book with up to two copies; calls are made on day 0 and every 15 days    *)
(* after it                                                                 *)

NextStatus ==
    \/ \E n \in 1..2 : AddBook(TitleA, AuthorB, Isbn1, n, TRUE)
    \/ \E b \in BookIds : Len(borrows) < StatusRecords /\ Borrow(PatronA, b, TRUE, TRUE)
    \/ \E b \in RawIds : Return(PatronA, b, TRUE, TRUE)
    \/ \E p \in FeePatrons, b \in RawIds : CalcFee(p, b)
    \/ now < StatusLeaps * (LoanDays + 1) /\ Elapse(LoanDays + 1)

SpecStatus == Init /\ [][NextStatus]_vars

-----------------------------------------------------------------------------
(* SpecCatalog: catalog admission over well-formed and malformed fields     *)

\* blank, padded, at the limit of 200 and one past it
CatTitles == {<<>>, <<" ", " ">>, <<" ", "A", " ">>, Rep("A", MaxTitleLen),
              Rep("A", MaxTitleLen + 1)}
\* empty, at the limit of 100 and one past it
CatAuthors == {<<>>, Rep("B", MaxAuthorLen), Rep("B", MaxAuthorLen + 1)}
\* 13 digits, 13 digits padded, 12 digits, 13 characters not all digits
CatIsbns == {Isbn1, <<" ">> \o Isbn2 \o <<" ">>, Rep("3", IsbnLen - 1),
             Rep("4", IsbnLen - 1) \o <<"x">>}

NextCatalog ==
    \E title \in CatTitles, author \in CatAuthors, isbn \in CatIsbns,
       n \in (-1)..CatCopies :
        AddBook(title, author, isbn, n, TRUE)

SpecCatalog == Init /\ [][NextCatalog]_vars

-----------------------------------------------------------------------------
(* Concurrent callers: a call is a sequence of steps, one per storage call; *)
(* the checks made on a call's own locals belong to the step that follows   *)
(* the read.  Every storage write succeeds.                                 *)

Goto(c, label, locals) ==
    /\ pc' = [pc EXCEPT ![c] = label]
    /\ loc' = [loc EXCEPT ![c] = locals]

Finish(c) == Goto(c, "idle", NoLocals)

\* borrow: the patron id check and get_book_by_id
BorrowStart(c, patron_id, book_id) ==
    /\ pc[c] = "idle"
    /\ LET book == get_book_by_id(books, book_id)
       IN  IF ~ValidPatronId(patron_id) \/ book = <<>> \/ NotAvailable(book[1])
           THEN Finish(c)
           ELSE Goto(c, "borrow_count",
                     [op |-> "borrow", patron_id |-> patron_id, book_id |-> book_id])
    /\ UNCHANGED <<books, borrows, now, last, chain>>

\* borrow: get_patron_borrow_count and the limit check
BorrowCount(c) ==
    /\ pc[c] = "borrow_count"
    /\ IF AtBorrowLimit(get_patron_borrow_count(borrows, loc[c].patron_id))
       THEN Finish(c)
       ELSE Goto(c, "borrow_insert", loc[c])
    /\ UNCHANGED <<books, borrows, now, last, chain>>

\* borrow: insert_borrow_record
BorrowInsert(c) ==
    /\ pc[c] = "borrow_insert"
    /\ borrows' = insert_borrow_record(borrows, loc[c].patron_id, loc[c].book_id,
                                       now, now + LoanDays)
    /\ Goto(c, "borrow_update", loc[c])
    /\ UNCHANGED <<books, now, last, chain>>

\* borrow: update_book_availability(book_id, -1)
BorrowUpdate(c) ==
    /\ pc[c] = "borrow_update"
    /\ books' = TakeCopy(books, loc[c].book_id)
    /\ Finish(c)
    /\ UNCHANGED <<borrows, now, last, chain>>

\* return: the patron id check, int(book_id) and get_book_by_id
ReturnStart(c, patron_id, raw_book_id) ==
    /\ pc[c] = "idle"
    /\ LET id == IntOf(raw_book_id)
       IN  IF ~ValidPatronId(patron_id) \/ id = <<>> \/ get_book_by_id(books, id[1]) = <<>>
           THEN Finish(c)
           ELSE Goto(c, "return_record",
                     [op |-> "return", patron_id |-> patron_id, book_id |-> id[1]])
    /\ UNCHANGED <<books, borrows, now, last, chain>>

\* return: update_borrow_record_return_date and the check of its result
ReturnRecord(c) ==
    /\ pc[c] = "return_record"
    /\ LET updated == LatestActive(borrows, loc[c].patron_id, loc[c].book_id) # <<>>
       IN  /\ borrows' = update_borrow_record_return_date(borrows, loc[c].patron_id,
                                                          loc[c].book_id, now)
           /\ IF NoActiveBorrow(updated) THEN Finish(c) ELSE Goto(c, "return_update", loc[c])
    /\ UNCHANGED <<books, now, last, chain>>

\* return: update_book_availability(book_id, +1)
ReturnUpdate(c) ==
    /\ pc[c] = "return_update"
    /\ books' = GiveCopyBack(books, loc[c].book_id)
    /\ Finish(c)
    /\ UNCHANGED <<borrows, now, last, chain>>

-----------------------------------------------------------------------------
(* SpecConc: two callers interleaved between their storage calls, over a    *)
(* catalog that holds one book                                              *)

InitConc ==
    /\ \E n \in 1..MaxCopies :
           books = add_book_to_catalog(<<>>, TitleA, AuthorB, Isbn1, n, TRUE).books
    /\ borrows = <<>>
    /\ now = 0
    /\ last = NoCall
    /\ chain = NoChain
    /\ pc = [c \in Callers |-> "idle"]
    /\ loc = [c \in Callers |-> NoLocals]

ConcPatrons == {PatronA, PatronB}

NextConc ==
    \E c \in Callers :
        \/ \E p \in ConcPatrons, b \in BookIds :
               Len(borrows) < ConcRecords /\ BorrowStart(c, p, b)
        \/ BorrowCount(c)
        \/ BorrowInsert(c)
        \/ BorrowUpdate(c)
        \/ \E p \in ConcPatrons, b \in RawIds : ReturnStart(c, p, b)
        \/ ReturnRecord(c)
        \/ ReturnUpdate(c)

SpecConc == InitConc /\ [][NextConc]_vars

-----------------------------------------------------------------------------
(* Vocabulary of the properties *)

\* a well-formed patron id: six characters, each a digit
SixDigits(p) == Len(p) = 6 /\ \A i \in 1..Len(p) : p[i] \in Digits

\* the rows of table brs with no return date: of a patron, of a pair, of a book
ActiveOfPatron(brs, p) == {i \in DOMAIN brs : brs[i].patron_id = p /\ brs[i].return_date = NULL}
ActiveOfPair(brs, p, b) == {i \in ActiveOfPatron(brs, p) : brs[i].book_id = b}
ActiveOfBook(brs, b) == {i \in DOMAIN brs : brs[i].book_id = b /\ brs[i].return_date = NULL}

PatronIdsSeen == {borrows[i].patron_id : i \in DOMAIN borrows}

\* the step is a complete borrow / return / fee call; its arguments and return
\* value are in last'
BorrowCall == last'.op = "borrow" /\ now' = now
ReturnCall == last'.op = "return" /\ now' = now
FeeCall    == last'.op = "fee" /\ now' = now

DbUnchanged == books' = books /\ borrows' = borrows

MsgInvalidPatron == Failure("Invalid patron ID. Must be exactly 6 digits.")
MsgNotFound      == Failure("Book not found.")
MsgNotAvailable  == Failure("This book is currently not available.")
MsgLimit         == Failure("You have reached the maximum borrowing limit of 5 books.")
MsgNoActive      == Failure("No active borrow for this patron and book.")

-----------------------------------------------------------------------------
(* Properties *)

\* C1: after any sequence of complete add, borrow and return calls whose storage
\* writes all succeed, every book has 0 <= available_copies <= total_copies.
C1_AvailabilityBounds ==
    \A b \in DOMAIN books :
        /\ 0 <= books[b].available_copies
        /\ books[b].available_copies <= books[b].total_copies

\* a return has just succeeded while another copy is still on loan
C1_Witness ==
    /\ last.op = "return"
    /\ last.ret[1]
    /\ \E b \in DOMAIN books : books[b].available_copies < books[b].total_copies

\* C2: every (patron, book) pair has at most one borrow record with a null
\* return_date.
C2_SingleActiveLoan ==
    \A p \in PatronIdsSeen : \A b \in DOMAIN books :
        Cardinality(ActiveOfPair(borrows, p, b)) <= 1

\* C3, as stated: no patron ever has more than 5 active records, and a borrow call
\* made while the patron has 5 active loans fails with the borrowing-limit message,
\* creates no record and changes no available_copies.
C3_LimitMessageAlways ==
    /\ [](\A p \in PatronIdsSeen : Cardinality(ActiveOfPatron(borrows, p)) <= 5)
    /\ [][(BorrowCall /\ Cardinality(ActiveOfPatron(borrows, last'.args.patron_id)) = 5)
            => (last'.ret = MsgLimit /\ DbUnchanged)]_vars

\* C3, amended: no patron ever has more than 5 active records, and a borrow call
\* made while the patron has 5 active loans fails, creates no record and changes no
\* available_copies; its message is the borrowing-limit message when the book
\* exists and has a copy available.
C3_BorrowLimit ==
    /\ [](\A p \in PatronIdsSeen : Cardinality(ActiveOfPatron(borrows, p)) <= 5)
    /\ [][(BorrowCall /\ Cardinality(ActiveOfPatron(borrows, last'.args.patron_id)) = 5)
            => /\ ~last'.ret[1]
               /\ DbUnchanged
               /\ (/\ last'.args.book_id \in DOMAIN books
                   /\ books[last'.args.book_id].available_copies > 0)
                      => last'.ret = MsgLimit]_vars

\* the sixth borrow of a patron with 5 active loans was refused with the limit message
C3_Witness ==
    /\ last.op = "borrow"
    /\ last.ret = MsgLimit
    /\ Cardinality(ActiveOfPatron(borrows, last.args.patron_id)) = 5

\* C4: a borrow call that returns failure leaves the borrow records and every
\* book's available_copies as they were, also when a storage write fails.
C4_BorrowAllOrNothing ==
    [][(BorrowCall /\ ~last'.ret[1]) => DbUnchanged]_vars

\* C5: with calls interleaved between their storage reads and writes, in every
\* state available_copies >= 0, no book has more active loans than total_copies,
\* and no (patron, book) pair has two active records.
C5_ConcurrentInvariants ==
    /\ \A b \in DOMAIN books :
           /\ books[b].available_copies >= 0
           /\ Cardinality(ActiveOfBook(borrows, b)) <= books[b].total_copies
    /\ \A p \in PatronIdsSeen : \A b \in DOMAIN books :
           Cardinality(ActiveOfPair(borrows, p, b)) <= 1

\* C6: a borrow call with a well-formed patron id on an existing book with
\* available_copies = 0 fails with the not-available message and changes neither
\* the borrow records nor any book.
C6_UnavailableNoChange ==
    [][(/\ BorrowCall
        /\ SixDigits(last'.args.patron_id)
        /\ last'.args.book_id \in DOMAIN books
        /\ books[last'.args.book_id].available_copies = 0)
         => (last'.ret = MsgNotAvailable /\ DbUnchanged)]_vars

\* a borrow was refused because no copy was left
C6_Witness ==
    /\ last.op = "borrow"
    /\ last.ret = MsgNotAvailable
    /\ books[last.args.book_id].available_copies = 0

\* C7: after N >= 1 successful borrow-then-return pairs of one (patron, book),
\* nothing in between, the book's available_copies is what it was before the
\* first borrow.
C7_BorrowReturnRestores ==
    (chain.n >= 1 /\ ~chain.open)
        => books[chain.book_id].available_copies = chain.base

\* two borrow-return pairs in a row have completed
C7_Witness == chain.n >= 2 /\ ~chain.open

\* C8: a return call with a well-formed patron id on an existing book with no
\* active record of that (patron, book) fails with the no-active-borrow message
\* and changes neither any book nor any borrow record.
C8_ReturnWithoutLoan ==
    [][(/\ ReturnCall
        /\ SixDigits(last'.args.patron_id)
        /\ last'.args.book_id.isint
        /\ last'.args.book_id.val \in DOMAIN books
        /\ ActiveOfPair(borrows, last'.args.patron_id, last'.args.book_id.val) = {})
         => (last'.ret = MsgNoActive /\ DbUnchanged)]_vars

\* a return was refused for a pair whose loan had already been returned
C8_Witness ==
    /\ last.op = "return"
    /\ last.ret = MsgNoActive
    /\ \E i \in DOMAIN borrows :
           /\ borrows[i].patron_id = last.args.patron_id
           /\ borrows[i].book_id = last.args.book_id.val
           /\ borrows[i].return_date # NULL

\* C9: a borrow call reports the first failing check in the order patron id
\* format, book exists, available_copies > 0, active loans < 5, and succeeds when
\* none fails.
C9_PreconditionOrder ==
    [][BorrowCall =>
         LET p == last'.args.patron_id
             b == last'.args.book_id
         IN  IF ~SixDigits(p) THEN last'.ret = MsgInvalidPatron
             ELSE IF b \notin DOMAIN books THEN last'.ret = MsgNotFound
             ELSE IF books[b].available_copies <= 0 THEN last'.ret = MsgNotAvailable
             ELSE IF Cardinality(ActiveOfPatron(borrows, p)) >= 5 THEN last'.ret = MsgLimit
             ELSE last'.ret[1]]_vars

\* a patron with 5 active loans asked for a book with no copy left and was told
\* the book is not available
C9_Witness ==
    /\ last.op = "borrow"
    /\ last.ret = MsgNotAvailable
    /\ Cardinality(ActiveOfPatron(borrows, last.args.patron_id)) = 5

-----------------------------------------------------------------------------
(* Vocabulary of the catalog properties *)

\* the first position of s at or after i, and the last at or before i, that does
\* not hold a blank; 0 when there is none
RECURSIVE FirstInk(_, _)
FirstInk(s, i) == IF i > Len(s) THEN 0 ELSE IF s[i] # " " THEN i ELSE FirstInk(s, i + 1)

RECURSIVE LastInk(_, _)
LastInk(s, i) == IF i < 1 THEN 0 ELSE IF s[i] # " " THEN i ELSE LastInk(s, i - 1)

\* s without its leading and trailing blanks
Trim(s) ==
    LET from == FirstInk(s, 1)
    IN  IF from = 0 THEN <<>> ELSE SubSeq(s, from, LastInk(s, Len(s)))

ThirteenDigits(s) == Len(s) = 13 /\ \A i \in 1..Len(s) : s[i] \in Digits

\* the arguments a of an add call pass every validation rule
FieldsValid(a) ==
    /\ a.total_copies > 0
    /\ ThirteenDigits(Trim(a.isbn))
    /\ Len(Trim(a.author)) \in 1..100
    /\ Len(Trim(a.title)) \in 1..200

IsbnUsed(bks, isbn) == \E i \in DOMAIN bks : bks[i].isbn = isbn

\* the step is a complete add_book_to_catalog call
AddCall == last'.op = "add" /\ now' = now

MsgDuplicate == Failure("A book with this ISBN already exists.")
ValidationMsgs ==
    {Failure("Title is required."), Failure("Title must be less than 200 characters."),
     Failure("Author is required."), Failure("Author must be less than 100 characters."),
     Failure("ISBN must be exactly 13 digits."),
     Failure("Total copies must be a positive integer.")}

\* C12: an add call whose trimmed title has 1..200 characters, trimmed author
\* 1..100, trimmed isbn 13 digits not in the catalog, and total_copies > 0
\* succeeds; the catalog gains exactly one book, the only one with that isbn, with
\* available_copies = total_copies = the argument, and keeps its other books.
C12_ValidAddSucceeds ==
    [][(/\ AddCall
        /\ FieldsValid(last'.args)
        /\ ~IsbnUsed(books, Trim(last'.args.isbn)))
         => /\ last'.ret[1]
            /\ Len(books') = Len(books) + 1
            /\ SubSeq(books', 1, Len(books)) = books
            /\ books'[Len(books')].isbn = Trim(last'.args.isbn)
            /\ books'[Len(books')].total_copies = last'.args.total_copies
            /\ books'[Len(books')].available_copies = books'[Len(books')].total_copies
            /\ Cardinality({i \in DOMAIN books' :
                               books'[i].isbn = Trim(last'.args.isbn)}) = 1]_vars

\* a second book was added, with a title of 200 characters
C12_Witness ==
    /\ last.op = "add"
    /\ last.ret[1]
    /\ Len(books) = 2
    /\ Len(books[2].title) = 200
    /\ books[2].available_copies = books[2].total_copies

\* C13, as stated: an add call whose isbn is already in the catalog fails with the
\* already-exists message whatever its other fields, the catalog is unchanged, and
\* no two books share an isbn.
C13_DuplicateAlwaysReported ==
    /\ [](\A i, j \in DOMAIN books : books[i].isbn = books[j].isbn => i = j)
    /\ [][(AddCall /\ IsbnUsed(books, Trim(last'.args.isbn)))
            => (last'.ret = MsgDuplicate /\ books' = books)]_vars

\* C13, amended: an add call whose isbn is already in the catalog fails and leaves
\* the catalog unchanged whatever its other fields, with the already-exists
\* message when the other fields are valid; no two books share an isbn.
C13_DuplicateRejected ==
    /\ [](\A i, j \in DOMAIN books : books[i].isbn = books[j].isbn => i = j)
    /\ [][(AddCall /\ IsbnUsed(books, Trim(last'.args.isbn)))
            => /\ ~last'.ret[1]
               /\ books' = books
               /\ FieldsValid(last'.args) => last'.ret = MsgDuplicate]_vars

\* an isbn already in the catalog was refused for a call with another title
C13_Witness ==
    /\ last.op = "add"
    /\ last.ret = MsgDuplicate
    /\ \E i \in DOMAIN books :
           /\ books[i].isbn = Trim(last.args.isbn)
           /\ books[i].title # Trim(last.args.title)

\* C14: an add call with an invalid field fails with a validation reason and
\* adds no book; a title of exactly 200 and an author of exactly 100 characters
\* are accepted; total_copies = 0 is rejected.
C14_ValidationRejects ==
    /\ [][(AddCall /\ ~FieldsValid(last'.args))
            => (last'.ret \in ValidationMsgs /\ books' = books)]_vars
    /\ [][(/\ AddCall
           /\ Len(Trim(last'.args.title)) = 200
           /\ Len(Trim(last'.args.author)) = 100
           /\ ThirteenDigits(Trim(last'.args.isbn))
           /\ last'.args.total_copies > 0
           /\ ~IsbnUsed(books, Trim(last'.args.isbn)))
            => (last'.ret[1] /\ Len(books') = Len(books) + 1)]_vars
    /\ [][(AddCall /\ last'.args.total_copies = 0)
            => (~last'.ret[1] /\ books' = books)]_vars

\* total_copies = 0 was refused with otherwise valid fields
C14_Witness ==
    /\ last.op = "add"
    /\ last.ret = Failure("Total copies must be a positive integer.")
    /\ last.args.total_copies = 0
    /\ Len(Trim(last.args.title)) = 200

-----------------------------------------------------------------------------
(* Properties of the fee status and of the records *)

\* the pair's most recently created record has been returned: its loan was returned
\* and the patron has not borrowed the book again
ReturnedNotReborrowed(brs, p, b) ==
    \E i \in DOMAIN brs :
        /\ brs[i].patron_id = p /\ brs[i].book_id = b
        /\ brs[i].return_date # NULL
        /\ \A j \in DOMAIN brs : (brs[j].patron_id = p /\ brs[j].book_id = b) => j <= i

\* a fee call returns no_active_loan, fee 0, days 0 exactly when the patron id is
\* malformed, the book id is not an integer or the pair has no active record, and
\* on_time or late otherwise
StatusExactly ==
    [][FeeCall =>
         LET p   == last'.args.patron_id
             raw == last'.args.book_id
         IN  IF ~SixDigits(p) \/ ~raw.isint \/ ActiveOfPair(borrows, p, raw.val) = {}
             THEN last'.ret = [fee_amount |-> 0, days_overdue |-> 0,
                               status |-> "no_active_loan"]
             ELSE last'.ret.status \in {"on_time", "late"}]_vars

\* C15: a fee call returns no_active_loan, fee 0, days 0 exactly when the patron id
\* is malformed, the book id unresolvable or the pair has no active record, and
\* on_time or late otherwise; and it returns no_active_loan for a pair whose loan
\* has been returned, until the patron borrows the book again.
C15_NoActiveLoanStatus ==
    /\ StatusExactly
    /\ [][(/\ FeeCall
           /\ last'.args.book_id.isint
           /\ ReturnedNotReborrowed(borrows, last'.args.patron_id, last'.args.book_id.val))
            => last'.ret.status = "no_active_loan"]_vars

\* C16: a fee call changes no book and no borrow record, and a fee call that
\* repeats the call before it (same arguments, same day) returns what that call
\* returned.
C16_FeeIsPureRead ==
    /\ [][FeeCall => DbUnchanged]_vars
    /\ [][(FeeCall /\ last'.again) => last'.ret = last.ret]_vars

\* a fee call on an overdue loan was repeated
C16_Witness ==
    /\ last.op = "fee"
    /\ last.again
    /\ last.ret.status = "late"

\* C17: a return call that reports failure leaves every book and every borrow
\* record as it was: the record is still active and available_copies unchanged.
C17_ReturnAllOrNothing ==
    [][(ReturnCall /\ ~last'.ret[1]) => DbUnchanged]_vars

\* each book's available_copies is its total_copies minus its active records
CopiesAccounted ==
    \A b \in DOMAIN books :
        books[b].available_copies =
            books[b].total_copies - Cardinality(ActiveOfBook(borrows, b))

\* a successful return closes the most recently created active record of its
\* pair, and only that one, and adds one copy to its book, and only to that one
ReturnClosesLatest ==
    [][(ReturnCall /\ last'.ret[1]) =>
         LET p    == last'.args.patron_id
             b    == last'.args.book_id.val
             rows == ActiveOfPair(borrows, p, b)
         IN  /\ rows # {}
             /\ LET hit == CHOOSE i \in rows : \A j \in rows : j <= i
                IN  borrows' = [borrows EXCEPT ![hit].return_date = now]
             /\ books' = [books EXCEPT ![b].available_copies = @ + 1]]_vars

\* C18: with sequential add/borrow/return calls whose storage writes all succeed,
\* each book's available_copies equals its total_copies minus the number of its
\* active records; each successful return closes exactly one active record, the
\* most recently created matching one, and adds exactly one copy.
C18_CopiesMatchActiveLoans ==
    /\ []CopiesAccounted
    /\ ReturnClosesLatest

\* a return has closed the later of two active records of a pair: the earlier one
\* is still active
C18_Witness ==
    /\ last.op = "return"
    /\ last.ret[1]
    /\ \E i, j \in DOMAIN borrows :
           /\ i < j
           /\ borrows[i].patron_id = last.args.patron_id
           /\ borrows[j].patron_id = last.args.patron_id
           /\ borrows[i].book_id = last.args.book_id.val
           /\ borrows[j].book_id = last.args.book_id.val
           /\ borrows[i].return_date = NULL
           /\ borrows[j].return_date # NULL

\* C19: no step deletes a borrow record or changes its id, patron_id, book_id,
\* borrow_date or due_date; a record is created only by a borrow call; a
\* return_date changes only from null to the day of a return call, and a set
\* return_date never changes again.
C19_RecordsAppendOnly ==
    [][/\ Len(borrows') >= Len(borrows)
       /\ Len(borrows') > Len(borrows) => BorrowCall
       /\ \A i \in DOMAIN borrows :
              /\ borrows'[i].id = borrows[i].id
              /\ borrows'[i].patron_id = borrows[i].patron_id
              /\ borrows'[i].book_id = borrows[i].book_id
              /\ borrows'[i].borrow_date = borrows[i].borrow_date
              /\ borrows'[i].due_date = borrows[i].due_date
              /\ borrows[i].return_date # NULL =>
                     borrows'[i].return_date = borrows[i].return_date
              /\ borrows'[i].return_date # borrows[i].return_date =>
                     ReturnCall /\ borrows'[i].return_date = now]_vars

\* a record returned some days after it was created, and a later record of the
\* same pair
C19_Witness ==
    \E i, j \in DOMAIN borrows :
        /\ i < j
        /\ borrows[i].patron_id = borrows[j].patron_id
        /\ borrows[i].book_id = borrows[j].book_id
        /\ borrows[i].return_date > borrows[i].borrow_date
        /\ borrows[j].borrow_date >= borrows[i].return_date

\* the book a borrow or return call is about; 0, the id of no book, when int()
\* rejects the id
BookOfCall(call) ==
    IF call.op = "borrow" THEN call.args.book_id
    ELSE IF call.args.book_id.isint THEN call.args.book_id.val ELSE 0

\* C20: a borrow or return call on book b by patron p changes no total_copies,
\* no available_copies of a book other than b, and creates or modifies no record
\* of a pair other than (p, b); an add call changes no existing book and no
\* borrow record.
C20_Frame ==
    /\ [][(BorrowCall \/ ReturnCall) =>
            LET p == last'.args.patron_id
                b == BookOfCall(last')
            IN  /\ Len(books') = Len(books)
                /\ \A k \in DOMAIN books :
                       /\ books'[k].total_copies = books[k].total_copies
                       /\ k # b => books'[k] = books[k]
                /\ \A i \in DOMAIN borrows :
                       (borrows[i].patron_id # p \/ borrows[i].book_id # b)
                           => (i \in DOMAIN borrows' /\ borrows'[i] = borrows[i])
                /\ \A i \in DOMAIN borrows' \ DOMAIN borrows :
                       borrows'[i].patron_id = p /\ borrows'[i].book_id = b]_vars
    /\ [][AddCall =>
            /\ borrows' = borrows
            /\ Len(books') >= Len(books)
            /\ \A k \in DOMAIN books : books'[k] = books[k]]_vars

\* a successful borrow of the second book while the first book has copies out and
\* another pair has a record
C20_Witness ==
    /\ last.op = "borrow"
    /\ last.ret[1]
    /\ last.args.book_id = 2
    /\ books[1].available_copies < books[1].total_copies
    /\ \E i \in DOMAIN borrows :
           borrows[i].book_id = 1 /\ borrows[i].patron_id # last.args.patron_id

=============================================================================
